---- MODULE Spec2Model ----
(***************************************************************************)
(* Telesales WhatsApp campaign generator (src/app.py).                     *)
(*                                                                         *)
(* One run of compute_outputs reads a Genesys export and an optional       *)
(* history ledger (both CSV), filters the export rows, and returns the     *)
(* campaign table, the updated ledger, the audit table and the counters.   *)
(* build_final_zip writes the updated ledger as sent_history_<date>.csv,   *)
(* which is the ledger file the next run is given.                         *)
(*                                                                         *)
(* Text cells are TLA+ strings.  A calendar date is the number of days     *)
(* since 2024-03-01; its ISO text is produced by IsoFormat and read back   *)
(* by ParseDate.  A missing cell (pandas NaN) is the value NaN.            *)
(***************************************************************************)
EXTENDS Integers, Sequences, FiniteSets, TLC

(***************************************************************************)
(* Bounds of the model.                                                    *)
(***************************************************************************)
MaxDay == 7          \* SpecChain: the clock runs over days 0..MaxDay
MaxStartDay == 1     \* Spec: the clock runs over days 0..MaxStartDay
MaxRows == 2         \* rows of one Genesys export
MaxRuns == 2         \* calls of compute_outputs in one behaviour
MaxInitRows == 2     \* rows of a ledger file the user supplies at the start

(***************************************************************************)
(* Program constants.                                                      *)
(***************************************************************************)
COOLDOWN_DAYS == 7
PHONE_DIGITS == 10

REQUIRED_GENESYS_COLUMNS ==
    { "inin-outbound-id", "borrower_id", "full_name", "phone",
      "CallRecordLastResult-phone", "CallRecordLastAgentWrapup-phone" }

ALLOWED_WRAPUPS ==
    { "call back", "reject the call", "i dont need money", "i don't need money" }

HISTORY_COLUMNS ==
    { "id", "inin_outbound_id", "borrower_id", "selected_at", "allowed_again_at" }

COUNTRY_CODE == "52"

RESULT_PREFIX == "ININ-OUTBOUND"

(***************************************************************************)
(* Text helpers (str methods of Python, computed character by character).  *)
(***************************************************************************)
CharAt(s, i) == SubSeq(s, i, i)

DIGITS == "0123456789"
UPPERCASE == "ABCDEFGHIJKLMNOPQRSTUVWXYZ"
LOWERCASE == "abcdefghijklmnopqrstuvwxyz"

\* str.isdigit() for one character, and its value
DigitOf == [c \in { CharAt(DIGITS, i) : i \in 1..10 } |->
               (CHOOSE i \in 1..10 : CharAt(DIGITS, i) = c) - 1]

IsDigit(c) == c \in DOMAIN DigitOf

DigitValue(c) == DigitOf[c]

\* str.lower()
LowerOf == [c \in { CharAt(UPPERCASE, i) : i \in 1..26 } |->
               CharAt(LOWERCASE, CHOOSE i \in 1..26 : CharAt(UPPERCASE, i) = c)]

LowerChar(c) == IF c \in DOMAIN LowerOf THEN LowerOf[c] ELSE c

RECURSIVE StrLower(_)
StrLower(s) ==
    IF Len(s) = 0 THEN ""
    ELSE LowerChar(CharAt(s, 1)) \o StrLower(SubSeq(s, 2, Len(s)))

\* str.strip(chars): drop the leading and trailing characters that are in chars
StripChars(s, chars) ==
    LET RECURSIVE L(_)
        L(t) == IF Len(t) > 0 /\ CharAt(t, 1) \in chars
                THEN L(SubSeq(t, 2, Len(t))) ELSE t
        RECURSIVE R(_)
        R(t) == IF Len(t) > 0 /\ CharAt(t, Len(t)) \in chars
                THEN R(SubSeq(t, 1, Len(t) - 1)) ELSE t
    IN R(L(s))

WHITESPACE == { " ", "\t", "\n", "\r" }

\* str.strip()
StrStrip(s) == StripChars(s, WHITESPACE)

\* str.startswith(prefix)
StartsWith(s, prefix) ==
    Len(s) >= Len(prefix) /\ SubSeq(s, 1, Len(prefix)) = prefix

\* s[-n:]
LastChars(s, n) == IF Len(s) <= n THEN s ELSE SubSeq(s, Len(s) - n + 1, Len(s))

\* str(int) for a natural number
RECURSIVE IntToStr(_)
IntToStr(n) ==
    IF n < 10 THEN CharAt(DIGITS, n + 1)
    ELSE IntToStr(n \div 10) \o CharAt(DIGITS, (n % 10) + 1)

AllDigits(s) == Len(s) > 0 /\ \A i \in 1..Len(s) : IsDigit(CharAt(s, i))

RECURSIVE StrToInt(_)
StrToInt(s) ==
    IF Len(s) = 0 THEN 0
    ELSE 10 * StrToInt(SubSeq(s, 1, Len(s) - 1)) + DigitValue(CharAt(s, Len(s)))

(***************************************************************************)
(* Sequence helpers.                                                       *)
(***************************************************************************)
\* df[mask]: the rows whose entry of the boolean column mask is true, in their order
SelectRows(rows, mask) ==
    LET RECURSIVE Go(_)
        Go(i) == IF i > Len(rows) THEN <<>>
                 ELSE (IF mask[i] THEN <<rows[i]>> ELSE <<>>) \o Go(i + 1)
    IN Go(1)

\* DataFrame.drop_duplicates(subset=..., keep="first"); keys[i] is the subset of row i
DropDuplicates(rows, keys) ==
    SelectRows(rows, [i \in 1..Len(rows) |-> ~\E j \in 1..(i - 1) : keys[j] = keys[i]])

\* mask.sum(), mask.isna().sum()
CountTrue(mask) == Cardinality({ i \in 1..Len(mask) : mask[i] })

\* Series.max()
SeqMax(values) ==
    CHOOSE m \in { values[i] : i \in 1..Len(values) } :
        \A i \in 1..Len(values) : values[i] <= m

(***************************************************************************)
(* Dates and CSV cells.                                                    *)
(***************************************************************************)
NaN == "<missing>"      \* a missing cell
NaT == -1               \* a date that did not parse

\* values read_csv turns into a missing cell (pandas' default na_values)
NA_VALUES ==
    { "", "#N/A", "#N/A N/A", "#NA", "-1.#IND", "-1.#QNAN", "-NaN", "-nan",
      "1.#IND", "1.#QNAN", "<NA>", "N/A", "NA", "NULL", "NaN", "None",
      "n/a", "nan", "null" }

IsNa(v) == v = NaN

\* one cell as pd.read_csv(..., dtype=str) reads it
ReadCsvCell(text) == IF text \in NA_VALUES THEN NaN ELSE text

\* one cell as DataFrame.to_csv writes it (na_rep is the empty text)
ToCsvCell(v) == IF IsNa(v) THEN "" ELSE v

\* Series.astype(str) on an object column
AsStr(v) == IF IsNa(v) THEN "nan" ELSE v

\* Series.fillna("")
FillNa(v) == IF IsNa(v) THEN "" ELSE v

DATE_PREFIX == "2024-03-"

\* date.isoformat(), str(date): day d is 2024-03-(d+1)
IsoFormat(d) ==
    DATE_PREFIX \o (IF d + 1 < 10 THEN "0" \o IntToStr(d + 1) ELSE IntToStr(d + 1))

\* pd.to_datetime(text, errors="coerce").dt.date for YYYY-MM-DD texts of March 2024;
\* every other text of the pools is unparseable and gives NaT
ParseDate(v) ==
    IF IsNa(v) THEN NaT
    ELSE IF Len(v) = 10 /\ StartsWith(v, DATE_PREFIX) /\ AllDigits(SubSeq(v, 9, 10))
              /\ StrToInt(SubSeq(v, 9, 10)) \in 1..31
         THEN StrToInt(SubSeq(v, 9, 10)) - 1
         ELSE NaT

\* pd.to_numeric(text, errors="coerce") for integer texts; -1 stands for NaN
NotNumeric == -1
ToNumeric(v) ==
    IF IsNa(v) THEN NotNumeric
    ELSE IF AllDigits(StrStrip(v)) THEN StrToInt(StrStrip(v)) ELSE NotNumeric

(***************************************************************************)
(* Pure helpers of src/app.py.                                             *)
(***************************************************************************)
\* normalize_columns, for one header text (the pools hold no byte-order mark)
NormalizeColumn(c) == StripChars(StripChars(StrStrip(c), {"\""}), {"'"})

normalize_columns(columns) == { NormalizeColumn(c) : c \in columns }

\* normalize_digits
RECURSIVE DigitsOf(_)
DigitsOf(s) ==
    IF Len(s) = 0 THEN ""
    ELSE (IF IsDigit(CharAt(s, 1)) THEN CharAt(s, 1) ELSE "")
         \o DigitsOf(SubSeq(s, 2, Len(s)))

normalize_digits(value) == IF IsNa(value) THEN "" ELSE DigitsOf(value)

\* the characters of s up to the first whitespace
RECURSIVE FirstToken(_)
FirstToken(s) ==
    IF Len(s) = 0 \/ CharAt(s, 1) \in WHITESPACE THEN ""
    ELSE CharAt(s, 1) \o FirstToken(SubSeq(s, 2, Len(s)))

first_name(value) == IF IsNa(value) THEN "" ELSE FirstToken(StrStrip(value))

(***************************************************************************)
(* Files.  A file is [present, name, columns, rows]: the header texts as   *)
(* written in the file and one function from column name to cell text per  *)
(* data row.  present = FALSE is "no file uploaded" (None).                *)
(***************************************************************************)
NoFile == [present |-> FALSE, name |-> "", columns |-> {}, rows |-> <<>>]

HistoryRow(id, oid, bid, sel, alw) ==
    [id |-> id, inin_outbound_id |-> oid, borrower_id |-> bid,
     selected_at |-> sel, allowed_again_at |-> alw]

\* to_csv_bytes(history_df) as build_final_zip stores it in sent_history_<date>.csv
to_csv_bytes(table) ==
    [present |-> TRUE,
     name    |-> "sent_history",
     columns |-> HISTORY_COLUMNS,
     rows    |-> [i \in 1..Len(table) |->
                    HistoryRow(ToCsvCell(table[i].id), ToCsvCell(table[i].inin_outbound_id),
                               ToCsvCell(table[i].borrower_id), ToCsvCell(table[i].selected_at),
                               ToCsvCell(table[i].allowed_again_at))]]

(***************************************************************************)
(* load_history_df                                                         *)
(***************************************************************************)
HistoryLoaded(rows) == [raised |-> FALSE, error |-> "", rows |-> rows]
HistoryRaised(msg) == [raised |-> TRUE, error |-> msg, rows |-> <<>>]

\* lines 83-88: the five columns, the two dates parsed
ParseHistoryRow(r) ==
    [id               |-> ReadCsvCell(r.id),
     inin_outbound_id |-> ReadCsvCell(r.inin_outbound_id),
     borrower_id      |-> ReadCsvCell(r.borrower_id),
     selected_at      |-> ParseDate(ReadCsvCell(r.selected_at)),
     allowed_again_at |-> ParseDate(ReadCsvCell(r.allowed_again_at))]

\* lines 101-105: id as the text of its integer value, the two ids trimmed
FinishHistoryRow(r) ==
    [r EXCEPT !.id               = IntToStr(ToNumeric(r.id)),
              !.borrower_id      = StrStrip(AsStr(r.borrower_id)),
              !.inin_outbound_id = StrStrip(AsStr(r.inin_outbound_id))]

\* load_history_df dropping the rows with an invalid date or id instead of raising
load_history_df_DropInvalid(uploaded_file) ==
    IF ~uploaded_file.present THEN HistoryLoaded(<<>>)
    ELSE IF HISTORY_COLUMNS \ normalize_columns(uploaded_file.columns) # {}
    THEN HistoryLoaded(<<>>)
    ELSE LET history == [i \in 1..Len(uploaded_file.rows) |->
                            ParseHistoryRow(uploaded_file.rows[i])]
             valid == SelectRows(history,
                          [i \in 1..Len(history) |->
                              /\ history[i].selected_at # NaT
                              /\ history[i].allowed_again_at # NaT
                              /\ ToNumeric(history[i].id) # NotNumeric])
         IN HistoryLoaded([i \in 1..Len(valid) |-> FinishHistoryRow(valid[i])])

load_history_df(uploaded_file) ==
    IF ~uploaded_file.present THEN HistoryLoaded(<<>>)
    ELSE IF HISTORY_COLUMNS \ normalize_columns(uploaded_file.columns) # {}
    THEN HistoryRaised("El archivo historico no tiene el formato esperado.")
    ELSE LET history == [i \in 1..Len(uploaded_file.rows) |->
                            ParseHistoryRow(uploaded_file.rows[i])]
             invalid_selected ==
                 CountTrue([i \in 1..Len(history) |-> history[i].selected_at = NaT])
             invalid_allowed ==
                 CountTrue([i \in 1..Len(history) |-> history[i].allowed_again_at = NaT])
         IN IF invalid_selected > 0 \/ invalid_allowed > 0
            THEN HistoryRaised("El historico contiene fechas invalidas.")
            ELSE IF \E i \in 1..Len(history) : ToNumeric(history[i].id) = NotNumeric
            THEN HistoryRaised("El historico contiene valores invalidos en la columna 'id'.")
            ELSE HistoryLoaded([i \in 1..Len(history) |-> FinishHistoryRow(history[i])])

(***************************************************************************)
(* compute_outputs                                                         *)
(***************************************************************************)
GenesysRow(oid, bid, name, phone, result, wrapup) ==
    ("inin-outbound-id" :> oid) @@ ("borrower_id" :> bid) @@ ("full_name" :> name)
    @@ ("phone" :> phone) @@ ("CallRecordLastResult-phone" :> result)
    @@ ("CallRecordLastAgentWrapup-phone" :> wrapup)

\* DropReason with the last overwrite not guarded by the earlier filters
DropReason_PhoneLast(cooldown_pass, result_pass, wrapup_pass, phone_pass) ==
    LET r0 == "selected"
        r1 == IF ~cooldown_pass THEN "cooldown" ELSE r0
        r2 == IF cooldown_pass /\ ~result_pass THEN "result" ELSE r1
        r3 == IF cooldown_pass /\ result_pass /\ ~wrapup_pass THEN "wrapup" ELSE r2
        r4 == IF ~phone_pass THEN "invalid_phone" ELSE r3
    IN r4

\* lines 173-187: "selected", then the four overwrites in the order of the code
DropReason(cooldown_pass, result_pass, wrapup_pass, phone_pass) ==
    LET r0 == "selected"
        r1 == IF ~cooldown_pass THEN "cooldown" ELSE r0
        r2 == IF cooldown_pass /\ ~result_pass THEN "result" ELSE r1
        r3 == IF cooldown_pass /\ result_pass /\ ~wrapup_pass THEN "wrapup" ELSE r2
        r4 == IF cooldown_pass /\ result_pass /\ wrapup_pass /\ ~phone_pass
              THEN "invalid_phone" ELSE r3
    IN r4

\* lines 157-162
IsSelectedFinal(cooldown_pass, result_pass, wrapup_pass, phone_pass) ==
    cooldown_pass /\ result_pass /\ wrapup_pass /\ phone_pass

\* lines 130-132
BlockedBorrowers(history_df, today) ==
    { AsStr(history_df[i].borrower_id) :
        i \in { j \in 1..Len(history_df) : history_df[j].allowed_again_at > today } }

\* lines 145, 148, 153
FilterResultPass(result_raw) == result_raw = "" \/ StartsWith(result_raw, RESULT_PREFIX)

FilterWrapupPass(wrap_raw) ==
    LET wrap_norm == StrLower(StrStrip(wrap_raw))
    IN wrap_norm = "" \/ wrap_norm \in ALLOWED_WRAPUPS

FilterPhonePass(phone_10) == Len(phone_10) = PHONE_DIGITS

\* lines 164-165
SelectedAt(today) == IsoFormat(today)

AllowedAgainAt_SixDays(today) == IsoFormat(today + COOLDOWN_DAYS - 1)

AllowedAgainAt(today) == IsoFormat(today + COOLDOWN_DAYS)

\* lines 134-187: the columns of df for one row of the export
FilterRow(raw, blocked_borrowers, today, source_filename) ==
    LET cell(c) == ReadCsvCell(raw[c])
        borrower_id_norm == StrStrip(AsStr(cell("borrower_id")))
        inin_outbound_id == StrStrip(AsStr(cell("inin-outbound-id")))
        result_raw == FillNa(cell("CallRecordLastResult-phone"))
        wrap_raw == FillNa(cell("CallRecordLastAgentWrapup-phone"))
        phone_raw == FillNa(cell("phone"))
        phone_full == normalize_digits(phone_raw)
        phone_10 == LastChars(phone_full, PHONE_DIGITS)
        cooldown_pass == borrower_id_norm \notin blocked_borrowers
        result_pass == FilterResultPass(result_raw)
        wrapup_pass == FilterWrapupPass(wrap_raw)
        phone_pass == FilterPhonePass(phone_10)
        selected == IsSelectedFinal(cooldown_pass, result_pass, wrapup_pass, phone_pass)
    IN [source_filename      |-> source_filename,
        campaign_run_at      |-> IsoFormat(today),
        borrower_id          |-> borrower_id_norm,
        inin_outbound_id     |-> inin_outbound_id,
        full_name            |-> cell("full_name"),
        phone_raw            |-> phone_raw,
        phone_full           |-> phone_full,
        phone_10             |-> phone_10,
        first_name           |-> first_name(cell("full_name")),
        filter_cooldown_pass |-> cooldown_pass,
        filter_result_pass   |-> result_pass,
        filter_wrapup_pass   |-> wrapup_pass,
        filter_phone_pass    |-> phone_pass,
        is_selected_final    |-> selected,
        drop_reason          |-> DropReason(cooldown_pass, result_pass, wrapup_pass, phone_pass),
        selected_at          |-> IF selected THEN SelectedAt(today) ELSE "",
        allowed_again_at     |-> IF selected THEN AllowedAgainAt(today) ELSE ""]

\* CampaignRow with the untruncated digits
CampaignRow_FullPhone(r) ==
    [country_code |-> COUNTRY_CODE, phone |-> r.phone_full, first_name |-> r.first_name]

\* lines 189-199
CampaignRow(r) ==
    [country_code |-> COUNTRY_CODE, phone |-> r.phone_10, first_name |-> r.first_name]

\* lines 202-208
CandidateRow(r) ==
    [inin_outbound_id |-> StrStrip(AsStr(r.inin_outbound_id)),
     borrower_id      |-> StrStrip(AsStr(r.borrower_id)),
     selected_at      |-> r.selected_at,
     allowed_again_at |-> r.allowed_again_at]

\* the key of drop_duplicates and of existing_keys, for rows whose dates are texts
TextKey(r) == <<AsStr(r.inin_outbound_id), AsStr(r.borrower_id), AsStr(r.selected_at)>>

\* lines 213-217: the dates of history_df are date objects, astype(str) gives ISO texts
ExistingKeys(history_df) ==
    { <<AsStr(history_df[i].inin_outbound_id), AsStr(history_df[i].borrower_id),
        IsoFormat(history_df[i].selected_at)>> : i \in 1..Len(history_df) }

\* NewHistoryRows without the drop_duplicates of lines 209-211
NewHistoryRows_NoDedup(selected_df, history_df) ==
    LET candidates == [i \in 1..Len(selected_df) |-> CandidateRow(selected_df[i])]
        existing_keys == ExistingKeys(history_df)
    IN SelectRows(candidates,
           [i \in 1..Len(candidates) |-> TextKey(candidates[i]) \notin existing_keys])

\* lines 209-231
NewHistoryRows(selected_df, history_df) ==
    LET rows == [i \in 1..Len(selected_df) |-> CandidateRow(selected_df[i])]
        candidates == DropDuplicates(rows, [i \in 1..Len(rows) |-> TextKey(rows[i])])
        existing_keys == ExistingKeys(history_df)
    IN SelectRows(candidates,
           [i \in 1..Len(candidates) |-> TextKey(candidates[i]) \notin existing_keys])

\* MaxId as the number of entries instead of the largest id
MaxId_Count(history_df) == Len(history_df)

\* line 233
MaxId(history_df) ==
    IF Len(history_df) > 0
    THEN SeqMax([i \in 1..Len(history_df) |-> ToNumeric(history_df[i].id)])
    ELSE 0

\* lines 235-244
AssignIds(rows, max_id) ==
    [i \in 1..Len(rows) |->
        HistoryRow(IntToStr(max_id + i), rows[i].inin_outbound_id, rows[i].borrower_id,
                   rows[i].selected_at, rows[i].allowed_again_at)]

\* pd.concat of lines 246-248: the dates of the old rows are date objects and those of
\* the new rows are texts; kind keeps the two apart, row holds the dates as ISO texts
Concatenated(history_df, new_history_rows) ==
    [i \in 1..Len(history_df) |->
        [kind |-> "date",
         row  |-> HistoryRow(history_df[i].id, history_df[i].inin_outbound_id,
                             history_df[i].borrower_id,
                             IsoFormat(history_df[i].selected_at),
                             IsoFormat(history_df[i].allowed_again_at))]]
    \o [i \in 1..Len(new_history_rows) |-> [kind |-> "str", row |-> new_history_rows[i]]]

\* the subset of the drop_duplicates of lines 249-251: a date object never equals a text
ConcatenatedKey(t) == <<t.row.inin_outbound_id, t.row.borrower_id, t.kind, t.row.selected_at>>

\* CombinedHistory without the drop_duplicates of lines 249-251
CombinedHistory_NoGuard(history_df, new_history_rows) ==
    LET all == Concatenated(history_df, new_history_rows)
    IN [i \in 1..Len(all) |-> all[i].row]

\* CombinedHistory with keep="last" in the drop_duplicates of lines 249-251
CombinedHistory_KeepLast(history_df, new_history_rows) ==
    LET all == Concatenated(history_df, new_history_rows)
        kept == SelectRows(all,
                    [i \in 1..Len(all) |->
                        ~\E j \in (i + 1)..Len(all) :
                            ConcatenatedKey(all[j]) = ConcatenatedKey(all[i])])
    IN [i \in 1..Len(kept) |-> kept[i].row]

\* lines 246-255: concatenation, drop_duplicates, then both date columns as ISO texts
CombinedHistory(history_df, new_history_rows) ==
    LET all == Concatenated(history_df, new_history_rows)
        kept == DropDuplicates(all, [i \in 1..Len(all) |-> ConcatenatedKey(all[i])])
    IN [i \in 1..Len(kept) |-> kept[i].row]

\* lines 279-301
Metrics(df, new_history_rows, campaign) ==
    LET n == Len(df)
    IN [registros_entrada     |-> n,
        removidos_cooldown    |-> CountTrue([i \in 1..n |-> ~df[i].filter_cooldown_pass]),
        removidos_result      |-> CountTrue([i \in 1..n |-> df[i].filter_cooldown_pass
                                                          /\ ~df[i].filter_result_pass]),
        removidos_wrapup      |-> CountTrue([i \in 1..n |-> df[i].filter_cooldown_pass
                                                          /\ df[i].filter_result_pass
                                                          /\ ~df[i].filter_wrapup_pass]),
        removidos_phone       |-> CountTrue([i \in 1..n |-> df[i].filter_cooldown_pass
                                                          /\ df[i].filter_result_pass
                                                          /\ df[i].filter_wrapup_pass
                                                          /\ ~df[i].filter_phone_pass]),
        seleccionados_finales |-> CountTrue([i \in 1..n |-> df[i].is_selected_final]),
        nuevos_en_historico   |-> Len(new_history_rows),
        registros_campana     |-> Len(campaign)]

Raised(msg) ==
    [raised |-> TRUE, error |-> msg, metrics |-> <<>>, combined_history |-> <<>>,
     audit_df |-> <<>>, campaign_df |-> <<>>, history_df |-> <<>>,
     new_history_rows |-> <<>>]

compute_outputs(genesys, history, today) ==
    IF REQUIRED_GENESYS_COLUMNS \ normalize_columns(genesys.columns) # {}
    THEN Raised("El archivo Genesys no contiene todas las columnas requeridas.")
    ELSE LET loaded == load_history_df(history)
         IN IF loaded.raised THEN Raised(loaded.error)
            ELSE
            LET history_df == loaded.rows
                blocked_borrowers == BlockedBorrowers(history_df, today)
                df == [i \in 1..Len(genesys.rows) |->
                          FilterRow(genesys.rows[i], blocked_borrowers, today, genesys.name)]
                selected_df == SelectRows(df, [i \in 1..Len(df) |-> df[i].is_selected_final])
                campaign == [i \in 1..Len(selected_df) |-> CampaignRow(selected_df[i])]
                surviving == NewHistoryRows(selected_df, history_df)
                new_rows == AssignIds(surviving, MaxId(history_df))
            IN [raised           |-> FALSE,
                error            |-> "",
                metrics          |-> Metrics(df, new_rows, campaign),
                combined_history |-> CombinedHistory(history_df, new_rows),
                audit_df         |-> df,
                campaign_df      |-> campaign,
                history_df       |-> history_df,
                new_history_rows |-> new_rows]

(***************************************************************************)
(* State.                                                                  *)
(***************************************************************************)
VARIABLES
    clock,             \* the current date in America/Mexico_City
    sent_history,      \* the newest ledger file the user holds (uploaded or downloaded)
    runs,              \* calls of compute_outputs so far
    selection_log,     \* every <<borrower_id, day>> some run selected
    genesys_file,      \* the export given to the last click
    history_file,      \* the ledger file given to the last click
    today,             \* compute_outputs: today, as read by the last call
    status,            \* "idle", "returned", "raised" or "no_genesys"
    metrics,           \* the values returned by the last call
    combined_history,
    audit_df,
    campaign_df,
    history_df,        \* compute_outputs: the ledger as loaded by the last call
    new_history_rows   \* compute_outputs: the entries the last call created

vars ==
    <<clock, sent_history, runs, selection_log, genesys_file, history_file, today, status,
      metrics, combined_history, audit_df, campaign_df, history_df, new_history_rows>>

(***************************************************************************)
(* Inputs: the rows an export is made of and the ledger files a user may   *)
(* hold before the first run.                                              *)
(***************************************************************************)
SeqsUpTo(S, n) == UNION { [1..k -> S] : k \in 0..n }

GOOD_PHONE == "+52 (55) 1234-5678"
SHORT_PHONE == "12345"

RowPass == GenesysRow("o1", "b1", "Ana Maria", GOOD_PHONE, "", " CALL BACK ")
RowPassOther == GenesysRow("o2", " b1 ", "", GOOD_PHONE, "ININ-OUTBOUND-SUCCESS", "")
RowBlank == GenesysRow("o1", "   ", "Luz", GOOD_PHONE, "", "")
RowPhone == GenesysRow("o1", "b2", "  Eva  Lopez", SHORT_PHONE, "", "i don't need money")
RowResult == GenesysRow("o1", "b1", "Ana Maria", GOOD_PHONE, "busy", "")
RowWrapup == GenesysRow("o1", "b2", "Eva Lopez", GOOD_PHONE, "", "not interested")
RowNone == GenesysRow("o1", "b2", "Eva Lopez", SHORT_PHONE, "inin-outbound", "Not Interested")

GenesysPool == { RowPass, RowPassOther, RowBlank, RowPhone, RowResult, RowWrapup, RowNone }
ChainPool == { RowPass, RowPassOther, RowBlank, RowPhone }

GenesysFile(columns, rows) ==
    [present |-> TRUE, name |-> "genesys.csv", columns |-> columns, rows |-> rows]

\* an export without the phone column, and one whose headers carry quotes and blanks
ExportMissingColumn == GenesysFile(REQUIRED_GENESYS_COLUMNS \ {"phone"}, <<>>)
ExportQuotedHeaders ==
    GenesysFile((REQUIRED_GENESYS_COLUMNS \ {"phone", "borrower_id"})
                    \cup {"\"phone\"", " 'borrower_id' "}, <<RowPass>>)

Exports(pool) ==
    { GenesysFile(REQUIRED_GENESYS_COLUMNS, rows) : rows \in SeqsUpTo(pool, MaxRows) }
    \cup { ExportMissingColumn, ExportQuotedHeaders }

HistoryFile(columns, rows) ==
    [present |-> TRUE, name |-> "sent_history", columns |-> columns, rows |-> rows]

InitRowPool ==
    { HistoryRow("1", "o1", "b1", IsoFormat(0), IsoFormat(7)),
      HistoryRow("2", "o1", "b1", IsoFormat(0), IsoFormat(1)),
      HistoryRow("3", "o1", " b2 ", IsoFormat(1), IsoFormat(1)),
      HistoryRow("4", "o1", "b2", "ayer", IsoFormat(7)),
      HistoryRow("x", "o1", "b2", IsoFormat(0), IsoFormat(7)) }

InitLedgers ==
    { NoFile,
      HistoryFile(HISTORY_COLUMNS \ {"allowed_again_at"}, <<>>),
      HistoryFile((HISTORY_COLUMNS \ {"id"}) \cup {" \"id\""}, <<>>) }
    \cup { HistoryFile(HISTORY_COLUMNS, rows) : rows \in SeqsUpTo(InitRowPool, MaxInitRows) }

(***************************************************************************)
(* Actions.                                                                *)
(***************************************************************************)
Idle ==
    /\ runs = 0
    /\ selection_log = {}
    /\ genesys_file = NoFile
    /\ history_file = NoFile
    /\ today = 0
    /\ status = "idle"
    /\ metrics = <<>>
    /\ combined_history = <<>>
    /\ audit_df = <<>>
    /\ campaign_df = <<>>
    /\ history_df = <<>>
    /\ new_history_rows = <<>>

Init ==
    /\ clock = 0
    /\ sent_history \in InitLedgers
    /\ Idle

InitChain ==
    /\ clock = 0
    /\ sent_history = NoFile
    /\ Idle

SelectedBorrowers(df) ==
    { df[i].borrower_id : i \in { j \in 1..Len(df) : df[j].is_selected_final } }

\* main, lines 433-482: the click on "Generar paquete final" with an export uploaded;
\* the ledger the call returns is stored as sent_history_<date>.csv in the package
Generate(g) ==
    /\ runs < MaxRuns
    /\ \E out \in {compute_outputs(g, sent_history, clock)} :
          /\ genesys_file' = g
          /\ history_file' = sent_history
          /\ today' = clock
          /\ runs' = runs + 1
          /\ status' = IF out.raised THEN "raised" ELSE "returned"
          /\ metrics' = out.metrics
          /\ combined_history' = out.combined_history
          /\ audit_df' = out.audit_df
          /\ campaign_df' = out.campaign_df
          /\ history_df' = out.history_df
          /\ new_history_rows' = out.new_history_rows
          /\ sent_history' = IF out.raised THEN sent_history
                             ELSE to_csv_bytes(out.combined_history)
          /\ selection_log' = selection_log \cup
                 { <<b, clock>> : b \in SelectedBorrowers(out.audit_df) }
    /\ UNCHANGED clock

\* main, lines 434-436: the click without an export
GenerateWithoutGenesys ==
    /\ status # "no_genesys"
    /\ genesys_file' = NoFile
    /\ history_file' = sent_history
    /\ status' = "no_genesys"
    /\ metrics' = <<>>
    /\ combined_history' = <<>>
    /\ audit_df' = <<>>
    /\ campaign_df' = <<>>
    /\ history_df' = <<>>
    /\ new_history_rows' = <<>>
    /\ UNCHANGED <<clock, sent_history, runs, selection_log, today>>

\* midnight in America/Mexico_City
AdvanceDay(last_day) ==
    /\ clock < last_day
    /\ clock' = clock + 1
    /\ UNCHANGED <<sent_history, runs, selection_log, genesys_file, history_file, today,
                   status, metrics, combined_history, audit_df, campaign_df, history_df,
                   new_history_rows>>

GenerateAny == \E g \in Exports(GenesysPool) : Generate(g)

GenerateChain == \E g \in Exports(ChainPool) : Generate(g)

Next == GenerateAny \/ GenerateWithoutGenesys \/ AdvanceDay(MaxStartDay)

NextChain == GenerateChain \/ GenerateWithoutGenesys \/ AdvanceDay(MaxDay)

Spec == Init /\ [][Next]_vars

SpecChain == InitChain /\ [][NextChain]_vars

(***************************************************************************)
(* Properties.                                                             *)
(***************************************************************************)
Returned == status = "returned"

\* the key of a ledger entry whose dates are texts
EntryKey(e) == <<e.inin_outbound_id, e.borrower_id, e.selected_at>>

\* a returned entry c carries the five values of the loaded entry h
SameEntry(c, h) ==
    /\ c.id = h.id
    /\ c.inin_outbound_id = h.inin_outbound_id
    /\ c.borrower_id = h.borrower_id
    /\ ParseDate(c.selected_at) = h.selected_at
    /\ ParseDate(c.allowed_again_at) = h.allowed_again_at

SameLoadedKey(h1, h2) ==
    /\ h1.inin_outbound_id = h2.inin_outbound_id
    /\ h1.borrower_id = h2.borrower_id
    /\ h1.selected_at = h2.selected_at

HasRepeatedKey(ledger) ==
    \E i, j \in 1..Len(ledger) : i < j /\ SameLoadedKey(ledger[i], ledger[j])

SelectedIndexes(df) == { i \in 1..Len(df) : df[i].is_selected_final }

\* the k-th smallest element of a set of indexes
NthOf(S, k) == CHOOSE i \in S : Cardinality({ j \in S : j <= i }) = k

(***************************************************************************)
(* C1.  In a chain of runs that starts without a ledger and gives every    *)
(* run the ledger the previous run returned, a borrower selected on day d  *)
(* is not selected by a later run on a day before d + 7: its rows there    *)
(* have cooldown_pass false and drop_reason "cooldown".  From day d + 7 on *)
(* that selection no longer blocks the borrower.                           *)
(***************************************************************************)
C1_CooldownWindow ==
    [][ (runs' = runs + 1 /\ status' = "returned") =>
          \A i \in 1..Len(audit_df') :
              LET b == audit_df'[i].borrower_id
                  days == { e[2] : e \in { x \in selection_log : x[1] = b } }
              IN /\ (\E d \in days : clock < d + COOLDOWN_DAYS) =>
                        /\ ~audit_df'[i].filter_cooldown_pass
                        /\ ~audit_df'[i].is_selected_final
                        /\ audit_df'[i].drop_reason = "cooldown"
                 /\ (\A d \in days : clock >= d + COOLDOWN_DAYS) =>
                        audit_df'[i].filter_cooldown_pass ]_vars

(***************************************************************************)
(* C2.  The ledger a run returns holds no two entries with the same triple *)
(* (outbound id, borrower id, selected_at), whatever the ledger it was     *)
(* given, repeated keys included, and after chained runs.                  *)
(***************************************************************************)
C2_UniqueKeys ==
    Returned =>
        \A i, j \in 1..Len(combined_history) :
            i < j => EntryKey(combined_history[i]) # EntryKey(combined_history[j])

C2_Witness ==
    /\ Returned
    /\ HasRepeatedKey(history_df)
    /\ Len(new_history_rows) > 0

(***************************************************************************)
(* C3 as claimed.  The returned ledger is the pre-existing entries,        *)
(* unchanged and in order, followed by the new ones.                       *)
(***************************************************************************)
C3_AppendOnly ==
    Returned =>
        /\ Len(combined_history) = Len(history_df) + Len(new_history_rows)
        /\ \A i \in 1..Len(history_df) : SameEntry(combined_history[i], history_df[i])
        /\ \A j \in 1..Len(new_history_rows) :
               combined_history[Len(history_df) + j] = new_history_rows[j]

(***************************************************************************)
(* C3 as amended.  The returned ledger is the first entry of every key of  *)
(* the pre-existing ledger, unchanged and in order, followed by the new    *)
(* entries; a pre-existing entry is dropped only when an earlier entry has *)
(* its key, so a ledger without repeated keys is returned whole.           *)
(***************************************************************************)
C3_AppendOnlyAmended ==
    Returned =>
        LET first == { i \in 1..Len(history_df) :
                         ~\E j \in 1..(i - 1) : SameLoadedKey(history_df[j], history_df[i]) }
            n == Cardinality(first)
        IN /\ Len(combined_history) = n + Len(new_history_rows)
           /\ \A k \in 1..n : SameEntry(combined_history[k], history_df[NthOf(first, k)])
           /\ \A j \in 1..Len(new_history_rows) :
                  combined_history[n + j] = new_history_rows[j]
           /\ ~HasRepeatedKey(history_df) => n = Len(history_df)

C3_Witness ==
    /\ Returned
    /\ Len(history_df) = 2
    /\ ~HasRepeatedKey(history_df)
    /\ Len(new_history_rows) > 0

(***************************************************************************)
(* C4.  With m the largest id of the pre-existing ledger (0 for an empty   *)
(* one) and k the number of candidates that survive de-duplication, the    *)
(* new entries get the ids m+1 .. m+k in the order the candidates appear   *)
(* in the export; no new id is the id of a pre-existing entry.             *)
(***************************************************************************)
C4_SurrogateIds ==
    Returned =>
        LET ids == { ToNumeric(history_df[i].id) : i \in 1..Len(history_df) }
            m == IF ids = {} THEN 0 ELSE CHOOSE x \in ids : \A y \in ids : y <= x
            old_today == { <<history_df[i].inin_outbound_id, history_df[i].borrower_id>> :
                             i \in { j \in 1..Len(history_df) :
                                       history_df[j].selected_at = today } }
            pair(i) == <<audit_df[i].inin_outbound_id, audit_df[i].borrower_id>>
            fresh == { i \in SelectedIndexes(audit_df) :
                         /\ pair(i) \notin old_today
                         /\ ~\E j \in SelectedIndexes(audit_df) : j < i /\ pair(j) = pair(i) }
            k == Cardinality(fresh)
        IN /\ Len(new_history_rows) = k
           /\ metrics.nuevos_en_historico = k
           /\ \A n \in 1..k :
                  /\ new_history_rows[n].id = IntToStr(m + n)
                  /\ <<new_history_rows[n].inin_outbound_id,
                       new_history_rows[n].borrower_id>> = pair(NthOf(fresh, n))
                  /\ \A i \in 1..Len(history_df) : history_df[i].id # new_history_rows[n].id

C4_Witness ==
    /\ Returned
    /\ Len(history_df) = 1
    /\ history_df[1].id = "3"
    /\ Len(new_history_rows) = 2

(***************************************************************************)
(* C5.  Run again on the same day over the same export, with the ledger    *)
(* the first run returned, the second run adds no ledger entry and returns *)
(* the same ledger.                                                        *)
(***************************************************************************)
C5_Idempotent ==
    [][ ( /\ runs' = runs + 1
          /\ status = "returned" /\ status' = "returned"
          /\ genesys_file' = genesys_file
          /\ today' = today
          /\ history_file' = to_csv_bytes(combined_history) ) =>
        ( /\ metrics'.nuevos_en_historico = 0
          /\ new_history_rows' = <<>>
          /\ combined_history' = combined_history ) ]_vars

(***************************************************************************)
(* C6.  selected is the conjunction of the four pass flags, drop_reason is *)
(* the reason of the first failing filter in the order cooldown, result,   *)
(* wrapup, invalid_phone, and it is "selected" iff selected is true: for   *)
(* every row of the audit table and for each of the 16 flag combinations.  *)
(***************************************************************************)
FirstFailing(cooldown_pass, result_pass, wrapup_pass, phone_pass) ==
    CASE ~cooldown_pass -> "cooldown"
      [] cooldown_pass /\ ~result_pass -> "result"
      [] cooldown_pass /\ result_pass /\ ~wrapup_pass -> "wrapup"
      [] cooldown_pass /\ result_pass /\ wrapup_pass /\ ~phone_pass -> "invalid_phone"
      [] OTHER -> "selected"

C6_FilterOutcome ==
    /\ \A i \in 1..Len(audit_df) :
           LET r == audit_df[i]
           IN /\ r.is_selected_final =
                    (r.filter_cooldown_pass /\ r.filter_result_pass
                     /\ r.filter_wrapup_pass /\ r.filter_phone_pass)
              /\ r.drop_reason = FirstFailing(r.filter_cooldown_pass, r.filter_result_pass,
                                              r.filter_wrapup_pass, r.filter_phone_pass)
              /\ (r.drop_reason = "selected") = r.is_selected_final
    /\ \A c, r, w, p \in BOOLEAN :
           /\ IsSelectedFinal(c, r, w, p) = (c /\ r /\ w /\ p)
           /\ DropReason(c, r, w, p) = FirstFailing(c, r, w, p)

C6_Witness ==
    \E i \in 1..Len(audit_df) :
        /\ ~audit_df[i].filter_cooldown_pass
        /\ ~audit_df[i].filter_phone_pass
        /\ audit_df[i].drop_reason = "cooldown"

(***************************************************************************)
(* C7.  A run whose export lacks a required column, or whose ledger file   *)
(* lacks a required column, holds an unparseable date or a non-numeric id, *)
(* raises: it returns no table and no counters and the user's ledger file  *)
(* is the one given to the run.  A run without a ledger file, on a sound   *)
(* export, returns, with an empty pre-existing ledger.                     *)
(***************************************************************************)
ExportLacksColumn == REQUIRED_GENESYS_COLUMNS \ normalize_columns(genesys_file.columns) # {}

LedgerInvalid ==
    /\ history_file.present
    /\ \/ HISTORY_COLUMNS \ normalize_columns(history_file.columns) # {}
       \/ \E i \in 1..Len(history_file.rows) :
              LET r == history_file.rows[i]
              IN \/ ParseDate(ReadCsvCell(r.selected_at)) = NaT
                 \/ ParseDate(ReadCsvCell(r.allowed_again_at)) = NaT
                 \/ ToNumeric(ReadCsvCell(r.id)) = NotNumeric

C7_FailsAtomically ==
    status \in {"returned", "raised"} =>
        /\ (ExportLacksColumn \/ LedgerInvalid) =>
               /\ status = "raised"
               /\ DOMAIN metrics = {}
               /\ combined_history = <<>>
               /\ audit_df = <<>>
               /\ campaign_df = <<>>
               /\ sent_history = history_file
        /\ (~history_file.present /\ ~ExportLacksColumn) =>
               /\ status = "returned"
               /\ history_df = <<>>
               /\ metrics.registros_entrada = Len(genesys_file.rows)

C7_Witness ==
    /\ status = "raised"
    /\ ~ExportLacksColumn
    /\ history_file.present
    /\ HISTORY_COLUMNS \ normalize_columns(history_file.columns) = {}
    /\ Len(history_file.rows) = 2
    /\ sent_history = history_file

(***************************************************************************)
(* C8 as claimed.  Every entry of the returned ledger has                  *)
(* allowed_again_at = selected_at + 7 days.                                *)
(***************************************************************************)
C8_SevenDays ==
    Returned =>
        \A i \in 1..Len(combined_history) :
            ParseDate(combined_history[i].allowed_again_at)
                = ParseDate(combined_history[i].selected_at) + COOLDOWN_DAYS

(***************************************************************************)
(* C8 as amended.  Every entry the run creates has selected_at = today and *)
(* allowed_again_at = today + 7 days; every other entry of the returned    *)
(* ledger is an entry of the pre-existing ledger with the dates it had     *)
(* there, whether or not they are 7 days apart.                            *)
(***************************************************************************)
C8_SevenDaysAmended ==
    Returned =>
        /\ \A j \in 1..Len(new_history_rows) :
               /\ ParseDate(new_history_rows[j].selected_at) = today
               /\ ParseDate(new_history_rows[j].allowed_again_at) = today + COOLDOWN_DAYS
        /\ \A i \in 1..Len(combined_history) :
               \/ \E j \in 1..Len(new_history_rows) :
                      combined_history[i] = new_history_rows[j]
               \/ \E j \in 1..Len(history_df) :
                      SameEntry(combined_history[i], history_df[j])

C8_Witness ==
    /\ Returned
    /\ Len(new_history_rows) > 0
    /\ \E i \in 1..Len(combined_history) :
           ParseDate(combined_history[i].allowed_again_at)
               # ParseDate(combined_history[i].selected_at) + COOLDOWN_DAYS

(***************************************************************************)
(* C9.  The campaign table has one row per selected record, in the order   *)
(* of the export, with country code "52" and the record's 10-digit phone;  *)
(* registros_campana = seleccionados_finales; without a selected record    *)
(* the campaign is empty and the run still returns.                        *)
(***************************************************************************)
C9_Campaign ==
    Returned =>
        LET sel == SelectedIndexes(audit_df)
            n == Cardinality(sel)
        IN /\ Len(audit_df) = Len(genesys_file.rows)
           /\ Len(campaign_df) = n
           /\ metrics.registros_campana = n
           /\ metrics.seleccionados_finales = n
           /\ \A k \in 1..n :
                  LET i == NthOf(sel, k)
                  IN /\ campaign_df[k].country_code = "52"
                     /\ campaign_df[k].phone = audit_df[i].phone_10
                     /\ Len(campaign_df[k].phone) = 10
                     /\ AllDigits(campaign_df[k].phone)
                     /\ genesys_file.rows[i]["phone"] = "+52 (55) 1234-5678"
                            => campaign_df[k].phone = "5512345678"
                     /\ campaign_df[k].first_name = audit_df[i].first_name

C9_Witness ==
    /\ Returned
    /\ Len(audit_df) = 2
    /\ Len(campaign_df) = 2
    /\ campaign_df[1].first_name = "Luz"
    /\ campaign_df[2].first_name = "Ana"

(***************************************************************************)
(* C10 as claimed.  No two selected records of one run share a borrower.   *)
(***************************************************************************)
C10_OncePerRun ==
    Returned =>
        \A i, j \in SelectedIndexes(audit_df) :
            i # j => audit_df[i].borrower_id # audit_df[j].borrower_id

(***************************************************************************)
(* C10 as amended.  The cooldown set is fixed when the run starts, so all  *)
(* rows of one borrower get the same cooldown_pass and every one of them   *)
(* that passes the other three filters is selected and gets a campaign     *)
(* row; what a run holds at most once is the pair (outbound id, borrower   *)
(* id) among the ledger entries it creates.                                *)
(***************************************************************************)
C10_OncePerRunAmended ==
    Returned =>
        /\ \A i, j \in 1..Len(audit_df) :
               audit_df[i].borrower_id = audit_df[j].borrower_id =>
                   audit_df[i].filter_cooldown_pass = audit_df[j].filter_cooldown_pass
        /\ Len(campaign_df) = Cardinality(SelectedIndexes(audit_df))
        /\ \A i, j \in 1..Len(new_history_rows) :
               i < j => EntryKey(new_history_rows[i]) # EntryKey(new_history_rows[j])

C10_Witness ==
    /\ Returned
    /\ Len(campaign_df) = 2
    /\ audit_df[1].borrower_id = audit_df[2].borrower_id
    /\ audit_df[1].inin_outbound_id = audit_df[2].inin_outbound_id
    /\ Len(new_history_rows) = 1

====
